---- MODULE Spec2Model ----
(***************************************************************************)
(* Job orchestration core of the bilingual book translator.                *)
(*                                                                         *)
(* streamlit_app.py keeps the job registry in one JSON file (tasks_db.json)*)
(* that every writer reads whole, changes in memory and rewrites whole.    *)
(* The writers are the script run of the page (submission, sweep) and one  *)
(* daemon thread per job (run_real_translation).  The model keeps, for     *)
(* each of them, the program counter and the local variable `tasks`.       *)
(*                                                                         *)
(* gemini_translator.py is modelled as a second state machine (SpecKeys)   *)
(* over the adapter's credential iterator.                                 *)
(***************************************************************************)
EXTENDS Integers, Sequences, FiniteSets, TLC

\* ---------------------------------------------------------------- bounds
MaxJobs == 2            \* submissions accepted in one behaviour
MaxTicks == 2           \* clock ticks of one ttl each
MaxKeys == 3            \* longest credential pool
MaxCalls == 4           \* translate calls on one adapter
MaxInterval == 4        \* longest interval given to set_interval
MaxParas == 3           \* longest list of paragraphs
LongMsgLen == 200       \* length of a long exception message

\* ------------------------------------------------------ program constants
TTL == 86400            \* streamlit_app.py:107
ErrLimit == 150         \* streamlit_app.py:95
TypeErrLen == 86        \* len of the TypeError message raised at streamlit_app.py:75
DefaultInterval == 3    \* gemini_translator.py:60

TickLen == TTL

JobIds == 1..MaxJobs
Main == 0
FileNames == {"a", "b"}
Keys == {"k1", "k2", "k3"}

\* ------------------------------------------------------------------ paths
\* A path is the sequence of the parts of its stem; the extension is kept
\* by every conversion of the program and is left out.
NoFile == << >>
PathOf(name) == << name >>

\* os.path.splitext + f"{name}_bilingual{ext}"
BilingualPath(input_file_path) == Append(input_file_path, "_bilingual")

\* processor.py:173
TempPath(input_file_path) == Append(input_file_path, "_bilingual_temp")

\* ---------------------------------------------------------------- engines
\* values of engine_options
EngineIds == {"local_helsinki", "chatgptapi", "deepl", "deeplfree", "claude",
              "google", "gemini", "qwen-mt-turbo", "tencentransmart", "ollama"}

\* api_key_mapping.get(engine_id) is not None
HasSecretName(engine_id) ==
    engine_id \in {"chatgptapi", "deepl", "claude", "gemini", "qwen-mt-turbo"}

\* keys of book_maker.translator.MODEL_DICT
MODEL_DICT == {"chatgptapi", "deepl", "deeplfree", "claude", "google",
               "gemini", "qwen-mt-turbo", "tencentransmart"}

KnownEngine(engine_id) == engine_id = "local_helsinki" \/ engine_id \in MODEL_DICT

\* the engines the model submits: local, remote with a credential slot,
\* remote without one
SubmitEngines == {"local_helsinki", "gemini", "ollama"}

\* ------------------------------------------------------------ the registry
EmptyTasks == [j \in {} |-> 0]

Min(a, b) == IF a < b THEN a ELSE b

VARIABLES
    clock,      \* datetime.now(), in seconds
    db,         \* content of tasks_db.json after the last completed write
    torn,       \* a writer has truncated tasks_db.json and not yet written it
    files,      \* paths that exist in the working directory
    nextId,     \* the next uuid
    pc,         \* position of each thread; pc[Main] is the script run
    tasks,      \* the local variable `tasks` of each thread
    args,       \* arguments of run_real_translation for each job
    exc,        \* the exception a job's unit caught, or "none"
    mnow,       \* the local variable `now` of cleanup_old_tasks
    req,        \* the widget values and task_id of the script run that submits a job
    out,        \* the local variable output_file of each thread
    swept,      \* the job ids whose record a sweep has removed from the store
    proxy,      \* the proxy option each job was submitted with, "" for none
    environ,    \* os.environ["http_proxy"] and ["https_proxy"], "" when not set
    effective,  \* the proxy setting in effect when each job's translation ran
    pool,       \* Gemini: the credentials given to the adapter
    keys,       \* Gemini: self.keys, what the iterator has not yet produced
    api_key,    \* Gemini: the credential genai is configured with
    astate,     \* Gemini: "new", "ready", "failed" (constructor raised)
    picks,      \* Gemini: the credentials selected so far, in order
    prompt,     \* self.prompt, the template of the adapter
    full_prompt, \* the request text of the last provider call
    t_text,     \* what the last translate call returned or raised
    interval,   \* self.interval
    since,      \* seconds since the last provider call was issued
    paced,      \* self.interval when the last provider call was issued
    sent,       \* provider calls issued
    calls,      \* Gemini: translate calls made
    hpc,        \* helsinki_translate_paragraphs: position of the call
    paragraphs, \* its argument paragraphs
    idx,        \* its loop index i
    translated_paragraphs, \* its list translated_paragraphs
    generated,  \* the paragraphs it has given to model.generate, in order
    pbar        \* the values it has shown on the progress bar, in order

jobvars == << clock, db, torn, files, nextId, pc, tasks, args, exc, mnow, req, out, swept,
              proxy, environ, effective >>
keyvars == << pool, keys, api_key, astate, picks, calls,
              prompt, full_prompt, t_text, interval, since, paced, sent >>
locvars == << hpc, paragraphs, idx, translated_paragraphs, generated, pbar >>
vars == << clock, db, torn, files, nextId, pc, tasks, args, exc, mnow, req, out, swept,
           proxy, environ, effective,
           pool, keys, api_key, astate, picks, calls,
           prompt, full_prompt, t_text, interval, since, paced, sent,
           hpc, paragraphs, idx, translated_paragraphs, generated, pbar >>

NoExc == "none"
NoArgs == [input_file |-> NoFile, engine_id |-> "none"]
NoPress == [engine_id |-> "none", api_key |-> "", name |-> "", task_id |-> 0]

\* load_tasks: an empty or half written file raises JSONDecodeError
load_tasks == IF torn THEN EmptyTasks ELSE db

\* tasks[task_id][field] = value
SetField(t, id, field, value) == [t EXCEPT ![id] = [@ EXCEPT ![field] = value]]

\* del tasks[task_id], for every id of ids
Without(t, ids) == [j \in (DOMAIN t) \ ids |-> t[j]]

\* tasks[task_id] = new_task
With(t, id, task) == [j \in (DOMAIN t) \cup {id} |-> IF j = id THEN task ELSE t[j]]

\* save_tasks, first half: open(DB_FILE, "w") truncates the file
SaveOpen(p, next) ==
    /\ torn' = TRUE
    /\ pc' = [pc EXCEPT ![p] = next]
    /\ UNCHANGED db

\* save_tasks, second half: json.dump and close
SaveClose(p, next) ==
    /\ db' = tasks[p]
    /\ torn' = FALSE
    /\ pc' = [pc EXCEPT ![p] = next]

JobInit ==
    /\ clock = 0
    /\ db = EmptyTasks
    /\ torn = FALSE
    /\ files = {}
    /\ nextId = 1
    /\ pc = [p \in JobIds \cup {Main} |-> IF p = Main THEN "idle" ELSE "none"]
    /\ tasks = [p \in JobIds \cup {Main} |-> EmptyTasks]
    /\ args = [j \in JobIds |-> NoArgs]
    /\ exc = [j \in JobIds |-> NoExc]
    /\ mnow = 0
    /\ req = NoPress
    /\ out = [j \in JobIds |-> NoFile]
    /\ swept = {}
    /\ environ = ""
    /\ effective = [j \in JobIds |-> ""]
    /\ proxy = [j \in JobIds |-> ""]

KeyInit ==
    /\ pool = << >>
    /\ keys = << >>
    /\ api_key = "none"
    /\ astate = "new"
    /\ picks = << >>
    /\ calls = 0
    /\ prompt = << >>
    /\ full_prompt = << >>
    /\ t_text = "none"
    /\ interval = 0
    /\ since = 0
    /\ paced = 0
    /\ sent = 0

LocInit ==
    /\ hpc = "idle"
    /\ paragraphs = << >>
    /\ idx = 0
    /\ translated_paragraphs = << >>
    /\ generated = << >>
    /\ pbar = << >>

\* ------------------------------------------------------------ submission
\* the check of streamlit_app.py:219 left out
MissingKey_never(engine_id, key) == FALSE

\* streamlit_app.py:219  if api_key_secret_name and not api_key
MissingKey(engine_id, key) == HasSecretName(engine_id) /\ key = ""

\* streamlit_app.py:243-248
new_task(name, engine_id) ==
    [file_name |-> name, engine |-> engine_id, status |-> "Queued", msg |-> 0,
     progress |-> 0, created_at |-> clock, result_file |-> NoFile,
     input_file |-> PathOf(name)]

\* streamlit_app.py:218-220: the submit button with the widget values
\* (selected_engine_id, api_key, uploaded_file.name), no usable credential
SubmitReject(engine_id, key, name) ==
    /\ pc[Main] \in {"idle", "error_shown"}
    /\ HasSecretName(engine_id) \/ key = ""
    /\ MissingKey(engine_id, key)
    /\ pc' = [pc EXCEPT ![Main] = "error_shown"]
    /\ UNCHANGED << clock, db, torn, files, nextId, tasks, args, exc, mnow, req, out, swept,
                    proxy, environ, effective >>

\* streamlit_app.py:218-250: the submit button, up to load_tasks and
\* tasks[task_id] = new_task
SubmitAccept(engine_id, key, name) ==
    /\ pc[Main] \in {"idle", "error_shown"}
    /\ HasSecretName(engine_id) \/ key = ""
    /\ ~MissingKey(engine_id, key)
    /\ nextId <= MaxJobs
    /\ files' = files \cup {PathOf(name)}
    /\ nextId' = nextId + 1
    /\ req' = [engine_id |-> engine_id, api_key |-> key, name |-> name, task_id |-> nextId]
    /\ tasks' = [tasks EXCEPT ![Main] = With(load_tasks, nextId, new_task(name, engine_id))]
    /\ pc' = [pc EXCEPT ![Main] = "submit_open"]
    /\ UNCHANGED << clock, db, torn, args, exc, mnow, out, swept,
                    proxy, environ, effective >>

\* streamlit_app.py:251, first half
SubmitOpen ==
    /\ pc[Main] = "submit_open"
    /\ SaveOpen(Main, "submit_close")
    /\ UNCHANGED << clock, files, nextId, tasks, args, exc, mnow, req, out, swept,
                    proxy, environ, effective >>

\* streamlit_app.py:251, second half, and 255-261: thread.start()
SubmitClose ==
    /\ pc[Main] = "submit_close"
    /\ db' = tasks[Main]
    /\ torn' = FALSE
    /\ pc' = [pc EXCEPT ![Main] = "idle", ![req.task_id] = "start"]
    /\ args' = [args EXCEPT ![req.task_id] =
                   [input_file |-> PathOf(req.name), engine_id |-> req.engine_id]]
    /\ tasks' = [tasks EXCEPT ![Main] = EmptyTasks]
    /\ req' = NoPress
    /\ UNCHANGED << clock, files, nextId, exc, mnow, out, swept,
                    proxy, environ, effective >>

\* ------------------------------------------------- run_real_translation
ExcKinds == {"TypeError", "FileNotFoundError", "ValueError", "long"}

\* len(str(e))
MsgLen(e) ==
    CASE e = "TypeError" -> TypeErrLen
      [] e = "FileNotFoundError" -> TypeErrLen \div 2   \* a message below the limit
      [] e = "ValueError" -> TypeErrLen \div 2
      [] e = "long" -> LongMsgLen

\* streamlit_app.py:95  str(e)[:150]
Truncate(n) == Min(n, ErrLimit)

\* streamlit_app.py:49-52
Start(j) ==
    /\ pc[j] = "start"
    /\ IF j \in DOMAIN load_tasks
       THEN /\ tasks' = [tasks EXCEPT ![j] = SetField(load_tasks, j, "status", "Running")]
            /\ pc' = [pc EXCEPT ![j] = "run_open"]
       ELSE /\ pc' = [pc EXCEPT ![j] = "gone"]
            /\ UNCHANGED tasks
    /\ UNCHANGED << clock, db, torn, files, nextId, args, exc, mnow, req, out, swept,
                    proxy, environ, effective >>

\* streamlit_app.py:53
RunOpen(j) ==
    /\ pc[j] = "run_open"
    /\ SaveOpen(j, "run_close")
    /\ UNCHANGED << clock, files, nextId, tasks, args, exc, mnow, req, out, swept,
                    proxy, environ, effective >>

RunClose(j) ==
    /\ pc[j] = "run_close"
    /\ SaveClose(j, "work")
    /\ tasks' = [tasks EXCEPT ![j] = EmptyTasks]
    /\ UNCHANGED << clock, files, nextId, args, exc, mnow, req, out, swept,
                    proxy, environ, effective >>

\* streamlit_app.py:56-72, the local engine: read the input, translate,
\* write the output
WorkLocal(j) ==
    /\ pc[j] = "work"
    /\ args[j].engine_id = "local_helsinki"
    /\ IF args[j].input_file \notin files
       THEN /\ exc' = [exc EXCEPT ![j] = "FileNotFoundError"]
            /\ UNCHANGED << files, out >>
       ELSE \/ /\ files' = files \cup {BilingualPath(args[j].input_file)}
               /\ out' = [out EXCEPT ![j] = BilingualPath(args[j].input_file)]
               /\ UNCHANGED exc
            \/ /\ exc' = [exc EXCEPT ![j] = "long"]
               /\ UNCHANGED << files, out >>
    /\ pc' = [pc EXCEPT ![j] = "final"]
    /\ UNCHANGED << clock, db, torn, nextId, tasks, args, mnow, req, swept,
                    proxy, environ, effective >>

\* streamlit_app.py:75-81, a remote engine: the call gives no value to the
\* parameter status_container of translate_book_processing (processor.py:72)
\* and raises TypeError before the body runs
WorkApi(j) ==
    /\ pc[j] = "work"
    /\ args[j].engine_id /= "local_helsinki"
    /\ exc' = [exc EXCEPT ![j] = "TypeError"]
    /\ pc' = [pc EXCEPT ![j] = "final"]
    /\ UNCHANGED << clock, db, torn, files, nextId, tasks, args, mnow, req, out, swept,
                    proxy, environ, effective >>

\* the values of the proxy field of the form; "" is the empty field, which
\* streamlit_app.py:238 turns into None
Proxies == {"", "px"}

\* processor.py:148-150: a proxy given to the call is put into os.environ,
\* and nothing takes it out again
SetProxy(env, p) == IF p /= "" THEN p ELSE env

\* what make_bilingual_book leaves behind for an input: any of the output
\* file and the temporary file
Leavings(input_file_path) ==
    SUBSET {BilingualPath(input_file_path), TempPath(input_file_path)}

\* processor.py:124-168, the body of translate_book_processing for a remote
\* engine, entered by a call that gives every parameter a value: the engine
\* lookup, then the loader and make_bilingual_book, which read the input and
\* return having left w behind, or raise
ProcTranslate(j) ==
    /\ pc[j] = "work"
    /\ args[j].engine_id /= "local_helsinki"
    /\ IF ~KnownEngine(args[j].engine_id)
       THEN /\ exc' = [exc EXCEPT ![j] = "ValueError"]
            /\ pc' = [pc EXCEPT ![j] = "final"]
            /\ UNCHANGED << files, environ, effective >>
       ELSE /\ environ' = SetProxy(environ, proxy[j])
            /\ effective' = [effective EXCEPT ![j] = SetProxy(environ, proxy[j])]
            /\ IF args[j].input_file \notin files
               THEN /\ exc' = [exc EXCEPT ![j] = "FileNotFoundError"]
                    /\ pc' = [pc EXCEPT ![j] = "final"]
                    /\ UNCHANGED files
               ELSE \/ \E w \in Leavings(args[j].input_file) :
                          /\ files' = files \cup w
                          /\ pc' = [pc EXCEPT ![j] = "reconcile"]
                          /\ UNCHANGED exc
                    \/ /\ exc' = [exc EXCEPT ![j] = "long"]
                       /\ pc' = [pc EXCEPT ![j] = "final"]
                       /\ UNCHANGED files
    /\ UNCHANGED << clock, db, torn, nextId, tasks, args, mnow, req, out, swept, proxy >>

\* reconciliation that hands back the output path when nothing was left
Reconcile_silent(f, input_file_path) ==
    IF TempPath(input_file_path) \in f /\ BilingualPath(input_file_path) \notin f
    THEN [files |-> (f \ {TempPath(input_file_path)}) \cup {BilingualPath(input_file_path)},
          ret |-> BilingualPath(input_file_path), exc |-> NoExc]
    ELSE [files |-> f, ret |-> BilingualPath(input_file_path), exc |-> NoExc]

\* reconciliation that hands back the output path without the rename
Reconcile_norename(f, input_file_path) ==
    IF BilingualPath(input_file_path) \in f \/ TempPath(input_file_path) \in f
    THEN [files |-> f, ret |-> BilingualPath(input_file_path), exc |-> NoExc]
    ELSE [files |-> f, ret |-> NoFile, exc |-> "FileNotFoundError"]

\* processor.py:170-177 on the directory f: the directory afterwards, the
\* path returned and the exception raised
Reconcile(f, input_file_path) ==
    IF BilingualPath(input_file_path) \in f
    THEN [files |-> f, ret |-> BilingualPath(input_file_path), exc |-> NoExc]
    ELSE IF TempPath(input_file_path) \in f
    THEN [files |-> (f \ {TempPath(input_file_path)}) \cup {BilingualPath(input_file_path)},
          ret |-> BilingualPath(input_file_path), exc |-> NoExc]
    ELSE [files |-> f, ret |-> NoFile, exc |-> "FileNotFoundError"]

\* processor.py:170-177 and the assignment of the result at streamlit_app.py:75
ProcReconcile(j) ==
    /\ pc[j] = "reconcile"
    /\ files' = Reconcile(files, args[j].input_file).files
    /\ out' = [out EXCEPT ![j] = Reconcile(files, args[j].input_file).ret]
    /\ exc' = [exc EXCEPT ![j] = Reconcile(files, args[j].input_file).exc]
    /\ pc' = [pc EXCEPT ![j] = "final"]
    /\ UNCHANGED << clock, db, torn, nextId, tasks, args, mnow, req, swept,
                    proxy, environ, effective >>

\* completion that records no result file
Completed_noresult(t, j, output_file) ==
    [t EXCEPT ![j] = [@ EXCEPT !.status = "Completed", !.progress = 1]]

\* streamlit_app.py:86-88
Completed(t, j, output_file) ==
    [t EXCEPT ![j] = [@ EXCEPT !.status = "Completed", !.progress = 1,
                                !.result_file = output_file]]

\* streamlit_app.py:95
Failed(t, j, e) ==
    [t EXCEPT ![j] = [@ EXCEPT !.status = "Failed", !.msg = Truncate(MsgLen(e))]]

\* streamlit_app.py:84-88 after a return, 93-95 after an exception
Final(j) ==
    /\ pc[j] = "final"
    /\ IF j \in DOMAIN load_tasks
       THEN /\ tasks' = [tasks EXCEPT ![j] =
                           IF exc[j] = "none"
                           THEN Completed(load_tasks, j, out[j])
                           ELSE Failed(load_tasks, j, exc[j])]
            /\ pc' = [pc EXCEPT ![j] = "fin_open"]
       ELSE /\ pc' = [pc EXCEPT ![j] = "gone"]
            /\ UNCHANGED tasks
    /\ UNCHANGED << clock, db, torn, files, nextId, args, exc, mnow, req, out, swept,
                    proxy, environ, effective >>

\* streamlit_app.py:89, 96
FinOpen(j) ==
    /\ pc[j] = "fin_open"
    /\ SaveOpen(j, "fin_close")
    /\ UNCHANGED << clock, files, nextId, tasks, args, exc, mnow, req, out, swept,
                    proxy, environ, effective >>

FinClose(j) ==
    /\ pc[j] = "fin_close"
    /\ SaveClose(j, "done")
    /\ tasks' = [tasks EXCEPT ![j] = EmptyTasks]
    /\ UNCHANGED << clock, files, nextId, args, exc, mnow, req, out, swept,
                    proxy, environ, effective >>

\* ------------------------------------------------------ cleanup_old_tasks
\* the comparison of streamlit_app.py:107 written >=
TasksToDelete_ge(t, now) == {j \in DOMAIN t : now - t[j].created_at >= TTL}

\* the loop of streamlit_app.py:105-108 left after the first expired record
TasksToDelete_first(t, now) ==
    {j \in DOMAIN t : /\ now - t[j].created_at > TTL
                      /\ \A k \in DOMAIN t : now - t[k].created_at > TTL => j <= k}

\* streamlit_app.py:105-108
TasksToDelete(t, now) == {j \in DOMAIN t : now - t[j].created_at > TTL}

\* streamlit_app.py:112-120: the files os.remove is called on
Artifacts(t, ids) ==
    ({t[j].result_file : j \in ids} \cup {t[j].input_file : j \in ids}) \ {NoFile}

\* the whole of cleanup_old_tasks on a registry d and a directory f
cleanup_old_tasks(d, f, now) ==
    IF TasksToDelete(d, now) = {}
    THEN << d, f >>
    ELSE << Without(d, TasksToDelete(d, now)), f \ Artifacts(d, TasksToDelete(d, now)) >>

\* streamlit_app.py:101-110
SweepLoad ==
    /\ pc[Main] \in {"idle", "error_shown"}
    /\ IF TasksToDelete(load_tasks, clock) = {}
       THEN /\ pc' = [pc EXCEPT ![Main] = "idle"]
            /\ UNCHANGED << tasks, mnow, out, swept,
                    proxy, environ, effective >>
       ELSE /\ tasks' = [tasks EXCEPT ![Main] = load_tasks]
            /\ mnow' = clock
            /\ pc' = [pc EXCEPT ![Main] = "sweep_del"]
    /\ UNCHANGED << clock, db, torn, files, nextId, args, exc, req, out, swept,
                    proxy, environ, effective >>

\* streamlit_app.py:111-122
SweepDelete ==
    /\ pc[Main] = "sweep_del"
    /\ files' = cleanup_old_tasks(tasks[Main], files, mnow)[2]
    /\ tasks' = [tasks EXCEPT ![Main] = cleanup_old_tasks(tasks[Main], files, mnow)[1]]
    /\ pc' = [pc EXCEPT ![Main] = "sweep_open"]
    /\ UNCHANGED << clock, db, torn, nextId, args, exc, mnow, req, out, swept,
                    proxy, environ, effective >>

\* the records of the store d that the sweep's write of t removes: the ones
\* the sweep deleted from its copy (a record submitted after the sweep read
\* the store is not older than the ttl)
Removed(d, t, now) == {j \in (DOMAIN d) \ (DOMAIN t) : now - d[j].created_at > TTL}

\* streamlit_app.py:123
SweepOpen ==
    /\ pc[Main] = "sweep_open"
    /\ SaveOpen(Main, "sweep_close")
    /\ UNCHANGED << clock, files, nextId, tasks, args, exc, mnow, req, out, swept,
                    proxy, environ, effective >>

SweepClose ==
    /\ pc[Main] = "sweep_close"
    /\ SaveClose(Main, "idle")
    /\ swept' = swept \cup Removed(db, tasks[Main], mnow)
    /\ tasks' = [tasks EXCEPT ![Main] = EmptyTasks]
    /\ mnow' = 0
    /\ UNCHANGED << clock, files, nextId, args, exc, req, out, proxy, environ, effective >>

\* time passes
Tick ==
    /\ clock < MaxTicks * TickLen
    /\ clock' = clock + TickLen
    /\ UNCHANGED << db, torn, files, nextId, pc, tasks, args, exc, mnow, req, out, swept,
                    proxy, environ, effective >>

\* ------------------------------------------------------- Gemini adapter
\* the pools an adapter is built over
Pools == UNION {[1..n -> Keys] : n \in 0..MaxKeys}

\* next(self.keys) on the iterator Base.__init__ makes of the pool: the pool's
\* credentials once, in order, then StopIteration
NextKey(ks) ==
    IF ks = << >>
    THEN [stop |-> TRUE, value |-> "none", rest |-> ks]
    ELSE [stop |-> FALSE, value |-> Head(ks), rest |-> Tail(ks)]

\* rotate_key configuring no credential once the iterator is exhausted
rotate_key_none(k, ks) ==
    IF NextKey(ks).stop
    THEN [api_key |-> "none", keys |-> ks]
    ELSE [api_key |-> NextKey(ks).value, keys |-> NextKey(ks).rest]

\* gemini_translator.py:62-68
rotate_key(k, ks) ==
    IF NextKey(ks).stop
    THEN [api_key |-> k, keys |-> ks]
    ELSE [api_key |-> NextKey(ks).value, keys |-> NextKey(ks).rest]

\* A prompt template is the sequence of its pieces: literal text and
\* replacement fields. None and the empty string are the empty sequence.
NoTemplate == << >>
DEFAULT_PROMPT == << "lit", "{text}", "lit", "{language}", "lit" >>
Templates == {NoTemplate, << "lit", "{text}" >>, << "lit", "{language}" >>,
              << "{text}", "{other}" >>}
EnvTemplates == {NoTemplate, << "{text}" >>}
Texts == {"u1", "u2"}
Language == "zh"
Intervals == (0 - 1)..MaxInterval

\* str.format(text=..., language=...): a field that is not given raises
\* KeyError, a keyword no field names is ignored
FormatRaises(tpl) == \E i \in DOMAIN tpl : tpl[i] = "{other}"

Format(tpl, text, language) ==
    [i \in DOMAIN tpl |->
        IF tpl[i] = "{text}" THEN text
        ELSE IF tpl[i] = "{language}" THEN language
        ELSE tpl[i]]

\* gemini_translator.py:40-44
ChoosePrompt(prompt_template, env) ==
    IF prompt_template /= NoTemplate THEN prompt_template
    ELSE IF env /= NoTemplate THEN env
    ELSE DEFAULT_PROMPT

\* gemini_translator.py:29-60
Construct(p, prompt_template, env) ==
    /\ astate = "new"
    /\ pool' = p
    /\ prompt' = ChoosePrompt(prompt_template, env)
    /\ IF NextKey(p).stop
       THEN /\ astate' = "failed"
            /\ UNCHANGED << keys, api_key, picks, interval >>
       ELSE /\ astate' = "ready"
            /\ keys' = NextKey(p).rest
            /\ api_key' = NextKey(p).value
            /\ picks' = << NextKey(p).value >>
            /\ interval' = DefaultInterval
    /\ UNCHANGED << calls, full_prompt, t_text, since, paced, sent >>

\* the seconds time.sleep waits when the pause is taken only after an answer
SleepFor_answered(ok, secs) == IF ok /\ secs >= 0 THEN secs ELSE 0

\* time.sleep(secs) at gemini_translator.py:88, reached whether the provider
\* answered (ok) or raised: a negative length raises ValueError at once
SleepFor(ok, secs) == IF secs < 0 THEN 0 ELSE secs

\* gemini_translator.py:70-89, for one text; ok is whether the provider
\* answers, d the seconds the call and the return take beyond the sleep
Translate(text, ok, d) ==
    /\ astate = "ready"
    /\ calls < MaxCalls
    /\ calls' = calls + 1
    /\ api_key' = rotate_key(api_key, keys).api_key
    /\ keys' = rotate_key(api_key, keys).keys
    /\ picks' = Append(picks, rotate_key(api_key, keys).api_key)
    /\ IF FormatRaises(prompt)
       THEN /\ t_text' = "KeyError"
            /\ UNCHANGED << full_prompt, since, paced, sent >>
       ELSE /\ full_prompt' = Format(prompt, text, Language)
            /\ sent' = sent + 1
            /\ paced' = interval
            /\ since' = d + SleepFor(ok, interval)
            /\ t_text' = IF interval < 0 THEN "ValueError"
                         ELSE IF ok THEN "text" ELSE "GEMINI_API_ERROR"
    /\ UNCHANGED << pool, astate, prompt, interval >>

\* gemini_translator.py:91-92
set_interval(i) ==
    /\ astate = "ready"
    /\ interval' = i
    /\ UNCHANGED << pool, keys, api_key, astate, picks, calls,
                    prompt, full_prompt, t_text, since, paced, sent >>

\* a second passes between two calls of the adapter
Wait ==
    /\ astate = "ready"
    /\ since <= MaxInterval
    /\ since' = since + 1
    /\ UNCHANGED << pool, keys, api_key, astate, picks, calls,
                    prompt, full_prompt, t_text, interval, paced, sent >>

\* --------------------------------------- helsinki_translate_paragraphs
\* paragraphs: two that strip() leaves empty, two that it does not
Paragraphs == {"", " ", "p", "q"}
ParagraphLists == UNION {[1..n -> Paragraphs] : n \in 0..MaxParas}

\* para.strip() is empty
Blank(para) == para \in {"", " "}

\* what tokenizer, model.generate and batch_decode make of a paragraph
ModelOut(para) == << "translated", para >>

\* a progress value, numerator over denominator
Shown(num, den) == [num |-> num, den |-> den]

\* the value reported after the unit at index k is the index itself
Progress_index(k, n) == Shown(k, n)

\* processor.py:42  (i + 1) / len(paragraphs)
Progress(k, n) == Shown(k + 1, n)

\* a call of helsinki_translate_paragraphs with the list ps
HelsinkiCall(ps) ==
    /\ hpc = "idle"
    /\ paragraphs' = ps
    /\ hpc' = "load"
    /\ UNCHANGED << idx, translated_paragraphs, generated, pbar >>

\* processor.py:30-33: the model is loaded, or load_helsinki_model raises;
\* then the list is started and the progress bar is created showing 0
HelsinkiLoad(ok) ==
    /\ hpc = "load"
    /\ IF ok
       THEN /\ hpc' = "loop"
            /\ translated_paragraphs' = << >>
            /\ pbar' = << Shown(0, 1) >>
            /\ idx' = 0
       ELSE /\ hpc' = "raised"
            /\ UNCHANGED << idx, translated_paragraphs, pbar >>
    /\ UNCHANGED << paragraphs, generated >>

\* processor.py:34-43, one turn of the loop; ok is whether the model calls
\* of the turn return
HelsinkiStep(ok) ==
    /\ hpc = "loop"
    /\ idx < Len(paragraphs)
    /\ IF Blank(paragraphs[idx + 1])
       THEN /\ translated_paragraphs' = Append(translated_paragraphs, "")
            /\ pbar' = Append(pbar, Progress(idx, Len(paragraphs)))
            /\ idx' = idx + 1
            /\ UNCHANGED << hpc, generated >>
       ELSE IF ok
       THEN /\ generated' = Append(generated, paragraphs[idx + 1])
            /\ translated_paragraphs' =
                  Append(translated_paragraphs, ModelOut(paragraphs[idx + 1]))
            /\ pbar' = Append(pbar, Progress(idx, Len(paragraphs)))
            /\ idx' = idx + 1
            /\ UNCHANGED hpc
       ELSE /\ hpc' = "raised"
            /\ UNCHANGED << idx, translated_paragraphs, generated, pbar >>
    /\ UNCHANGED paragraphs

\* processor.py:44
HelsinkiReturn ==
    /\ hpc = "loop"
    /\ idx = Len(paragraphs)
    /\ hpc' = "returned"
    /\ UNCHANGED << paragraphs, idx, translated_paragraphs, generated, pbar >>

\* ------------------------------------------------------- specifications
Init == JobInit /\ KeyInit /\ LocInit

Reject ==
    \E engine_id \in SubmitEngines, key \in {"", "k1"}, name \in FileNames :
        SubmitReject(engine_id, key, name)

\* the uploads' names are interchangeable: the first one is called "a"
Accept ==
    \E engine_id \in SubmitEngines, key \in {"", "k1"}, name \in FileNames :
        (nextId = 1 => name = "a") /\ SubmitAccept(engine_id, key, name)

Next ==
    /\ \/ Tick
       \/ Reject
       \/ Accept
       \/ SubmitOpen
       \/ SubmitClose
       \/ \E j \in JobIds : Start(j)
       \/ \E j \in JobIds : RunOpen(j)
       \/ \E j \in JobIds : RunClose(j)
       \/ \E j \in JobIds : WorkLocal(j)
       \/ \E j \in JobIds : WorkApi(j)
       \/ \E j \in JobIds : Final(j)
       \/ \E j \in JobIds : FinOpen(j)
       \/ \E j \in JobIds : FinClose(j)
       \/ SweepLoad
       \/ SweepDelete
       \/ SweepOpen
       \/ SweepClose
    /\ UNCHANGED << keyvars, locvars >>

Spec == Init /\ [][Next]_vars

\* The same steps when every read-modify-write of the registry runs alone
\* and the jobs run one after the other: a step is taken only while no other
\* thread is between its load_tasks and the end of its save_tasks, and a job's
\* thread runs only while no other job's thread is under way.
Busy(q) ==
    pc[q] \in {"run_open", "run_close", "fin_open", "fin_close", "submit_open",
               "submit_close", "sweep_del", "sweep_open", "sweep_close"}

Active(k) == pc[k] \notin {"none", "start", "done", "gone"}

Alone(p) ==
    /\ \A q \in (JobIds \cup {Main}) \ {p} : ~Busy(q)
    /\ p \in JobIds => \A k \in JobIds \ {p} : ~Active(k)

NextSeq ==
    /\ \/ Alone(Main) /\ ~Busy(Main) /\ Tick
       \/ Alone(Main) /\ Reject
       \/ Alone(Main) /\ Accept
       \/ Alone(Main) /\ SubmitOpen
       \/ Alone(Main) /\ SubmitClose
       \/ \E j \in JobIds : Alone(j) /\ Start(j)
       \/ \E j \in JobIds : Alone(j) /\ RunOpen(j)
       \/ \E j \in JobIds : Alone(j) /\ RunClose(j)
       \/ \E j \in JobIds : Alone(j) /\ WorkLocal(j)
       \/ \E j \in JobIds : Alone(j) /\ WorkApi(j)
       \/ \E j \in JobIds : Alone(j) /\ Final(j)
       \/ \E j \in JobIds : Alone(j) /\ FinOpen(j)
       \/ \E j \in JobIds : Alone(j) /\ FinClose(j)
       \/ Alone(Main) /\ SweepLoad
       \/ Alone(Main) /\ SweepDelete
       \/ Alone(Main) /\ SweepOpen
       \/ Alone(Main) /\ SweepClose
    /\ UNCHANGED << keyvars, locvars >>

SpecSeq == Init /\ [][NextSeq]_vars

\* The execution units alone: every job id has been submitted (its record is
\* Queued, its input file written, its thread started) and only the threads
\* run, in any interleaving.
InitUnits ==
    /\ clock = 0
    /\ torn = FALSE
    /\ nextId = MaxJobs + 1
    /\ mnow = 0
    /\ req = NoPress
    /\ out = [j \in JobIds |-> NoFile]
    /\ swept = {}
    /\ environ = ""
    /\ effective = [j \in JobIds |-> ""]
    /\ exc = [j \in JobIds |-> NoExc]
    /\ tasks = [p \in JobIds \cup {Main} |-> EmptyTasks]
    /\ pc = [p \in JobIds \cup {Main} |-> IF p = Main THEN "idle" ELSE "start"]
    /\ proxy = [j \in JobIds |-> ""]
    /\ \E e \in [JobIds -> SubmitEngines], n \in [JobIds -> FileNames] :
          /\ args = [j \in JobIds |-> [input_file |-> PathOf(n[j]), engine_id |-> e[j]]]
          /\ db = [j \in JobIds |-> new_task(n[j], e[j])]
          /\ files = {PathOf(n[j]) : j \in JobIds}
    /\ KeyInit
    /\ LocInit

NextUnits ==
    /\ \/ \E j \in JobIds : Start(j)
       \/ \E j \in JobIds : RunOpen(j)
       \/ \E j \in JobIds : RunClose(j)
       \/ \E j \in JobIds : WorkLocal(j)
       \/ \E j \in JobIds : WorkApi(j)
       \/ \E j \in JobIds : Final(j)
       \/ \E j \in JobIds : FinOpen(j)
       \/ \E j \in JobIds : FinClose(j)
    /\ UNCHANGED << keyvars, locvars >>

SpecUnits == InitUnits /\ [][NextUnits]_vars

\* translate_book_processing entered for a remote engine by a caller that
\* passes every parameter, and what run_real_translation does with its return
\* value or its exception: every job id has been submitted to a remote
\* engine, its record is Running and its thread is inside the call.
InitCall ==
    /\ clock = 0
    /\ torn = FALSE
    /\ nextId = MaxJobs + 1
    /\ mnow = 0
    /\ req = NoPress
    /\ out = [j \in JobIds |-> NoFile]
    /\ swept = {}
    /\ environ = ""
    /\ effective = [j \in JobIds |-> ""]
    /\ exc = [j \in JobIds |-> NoExc]
    /\ tasks = [p \in JobIds \cup {Main} |-> EmptyTasks]
    /\ pc = [p \in JobIds \cup {Main} |-> IF p = Main THEN "idle" ELSE "work"]
    /\ proxy \in [JobIds -> Proxies]
    /\ \E e \in [JobIds -> SubmitEngines \ {"local_helsinki"}], n \in [JobIds -> FileNames] :
          /\ args = [j \in JobIds |-> [input_file |-> PathOf(n[j]), engine_id |-> e[j]]]
          /\ db = [j \in JobIds |-> [new_task(n[j], e[j]) EXCEPT !.status = "Running"]]
          /\ files = {PathOf(n[j]) : j \in JobIds}
    /\ KeyInit
    /\ LocInit

NextCall ==
    /\ \/ \E j \in JobIds : ProcTranslate(j)
       \/ \E j \in JobIds : ProcReconcile(j)
       \/ \E j \in JobIds : Final(j)
       \/ \E j \in JobIds : FinOpen(j)
       \/ \E j \in JobIds : FinClose(j)
    /\ UNCHANGED << keyvars, locvars >>

SpecCall == InitCall /\ [][NextCall]_vars

\* One adapter: construction over a pool, then translate calls.
NextKeys ==
    /\ \/ \E p \in Pools, tpl \in Templates, env \in EnvTemplates : Construct(p, tpl, env)
       \/ \E text \in Texts, ok \in BOOLEAN, d \in 0..1 : Translate(text, ok, d)
    /\ UNCHANGED << jobvars, locvars >>

SpecKeys == Init /\ [][NextKeys]_vars

\* One adapter over one credential and the default template: translate calls,
\* set_interval calls and time passing between them, in any order.
NextPace ==
    /\ \/ Construct(<< "k1" >>, NoTemplate, NoTemplate)
       \/ \E text \in Texts, ok \in BOOLEAN, d \in 0..1 : Translate(text, ok, d)
       \/ \E i \in Intervals : set_interval(i)
       \/ Wait
    /\ UNCHANGED << jobvars, locvars >>

SpecPace == Init /\ [][NextPace]_vars

\* One call of helsinki_translate_paragraphs on a list of paragraphs.
NextLocal ==
    /\ \/ \E ps \in ParagraphLists : HelsinkiCall(ps)
       \/ \E ok \in BOOLEAN : HelsinkiLoad(ok)
       \/ \E ok \in BOOLEAN : HelsinkiStep(ok)
       \/ HelsinkiReturn
    /\ UNCHANGED << jobvars, keyvars >>

SpecLocal == Init /\ [][NextLocal]_vars

\* ------------------------------------------------------------------ claims
Threads == JobIds \cup {Main}

UnitsEnded == \A k \in JobIds : pc[k] \in {"none", "done", "gone"}

\* the update the unit of job j writes last
Written(j) == IF exc[j] = "none" THEN "Completed" ELSE "Failed"

Rank(status) ==
    CASE status = "Queued" -> 0
      [] status = "Running" -> 1
      [] status \in {"Completed", "Failed"} -> 2

\* len of the status string of a failed record: the prefix, the text, "..."
ErrorLen(task) == 6 + task.msg + 3

\* C1: when all execution units have finished, the store shows for every
\* job id the update that the job's own unit wrote; no write to one id is
\* undone by a write to another id.
C1_NoLostWrite ==
    (UnitsEnded /\ ~Busy(Main)) =>
        \A j \in JobIds :
            (pc[j] = "done" /\ j \in DOMAIN db) => db[j].status = Written(j)

\* C2: the status the store shows for a job never moves backwards in
\* Queued, Running, (Completed or Failed), and never goes from Queued
\* directly to Completed.
C2_StatusOrder ==
    [][\A j \in (DOMAIN db) \cap (DOMAIN db') :
          /\ Rank(db'[j].status) >= Rank(db[j].status)
          /\ Rank(db[j].status) = 2 => db'[j].status = db[j].status
          /\ ~(db[j].status = "Queued" /\ db'[j].status = "Completed")]_vars

\* C3: the sweep never removes the record of a job the store shows as
\* Running and never deletes its input or result artifact.
C3_SweepSparesRunning ==
    [][/\ (pc[Main] = "sweep_del" /\ pc'[Main] = "sweep_open") =>
              \A j \in DOMAIN db :
                  db[j].status = "Running" =>
                      /\ db[j].input_file \in files => db[j].input_file \in files'
                      /\ db[j].result_file \in files => db[j].result_file \in files'
       /\ (pc[Main] = "sweep_close" /\ pc'[Main] = "idle") =>
              \A j \in DOMAIN db : db[j].status = "Running" => j \in DOMAIN db'
      ]_vars

\* C4: a job whose provider call raised has, once its unit has ended, a
\* record in Failed with a non-empty error string of bounded length.
C4_RaisingJobFails ==
    \A j \in JobIds :
        (pc[j] \in {"done", "gone"} /\ exc[j] = "long" /\ j \in DOMAIN db /\ ~torn) =>
            /\ db[j].status = "Failed"
            /\ ErrorLen(db[j]) > 0
            /\ ErrorLen(db[j]) <= 6 + ErrLimit + 3

\* C5: no job is left showing Queued or Running once its execution unit
\* has ended.
C5_EndedUnitIsTerminal ==
    \A j \in JobIds :
        (pc[j] \in {"done", "gone"} /\ j \in DOMAIN db /\ ~torn) =>
            db[j].status \in {"Completed", "Failed"}

\* C6: a submission with an engine id that is no known provider creates no
\* record and starts no execution unit.
C6_UnknownEngineRejected ==
    \A j \in JobIds :
        /\ j \in DOMAIN db => KnownEngine(db[j].engine)
        /\ pc[j] /= "none" => KnownEngine(args[j].engine_id)

\* C7: a submission for an engine with a credential slot and empty credential
\* material is never accepted, and its rejection leaves the store, the files
\* and the execution units as they were.
C7_MissingKeyRejected ==
    [][/\ (pc[Main] /= "submit_open" /\ pc'[Main] = "submit_open") =>
              ~(HasSecretName(req'.engine_id) /\ req'.api_key = "")
       /\ (pc[Main] /= "error_shown" /\ pc'[Main] = "error_shown") =>
              /\ UNCHANGED << db, torn, files, nextId, tasks, args >>
              /\ \A j \in JobIds : pc'[j] = pc[j]
      ]_vars

C7_Witness == pc[Main] = "error_shown" /\ DOMAIN db /= {} /\ nextId <= MaxJobs

\* C8: a sweep reads the store and the time, removes exactly the records
\* created more than the ttl before that time, deletes exactly their input
\* and result artifacts, keeps every other record with its fields unchanged
\* and writes the result to the store.
C8_SweepExact ==
    [][/\ (pc[Main] /= "sweep_del" /\ pc'[Main] = "sweep_del") =>
              /\ tasks'[Main] = (IF torn THEN EmptyTasks ELSE db)
              /\ mnow' = clock
              /\ \E j \in DOMAIN tasks'[Main] : clock - tasks'[Main][j].created_at > TTL
       /\ (pc[Main] \in {"idle", "error_shown"} /\ pc'[Main] \in {"idle", "error_shown"}
              /\ (files' /= files \/ db' /= db)) =>
              \E j \in JobIds : pc'[j] /= pc[j]
       /\ (pc[Main] = "sweep_del" /\ pc'[Main] = "sweep_open") =>
              LET t == tasks[Main]
                  old == {j \in DOMAIN t : mnow - t[j].created_at > TTL}
              IN  /\ DOMAIN tasks'[Main] = (DOMAIN t) \ old
                  /\ \A j \in (DOMAIN t) \ old : tasks'[Main][j] = t[j]
                  /\ files' = files \ ({t[j].input_file : j \in old}
                                        \cup {t[j].result_file : j \in old})
       /\ (pc[Main] = "sweep_close" /\ pc'[Main] = "idle") => db' = tasks[Main]
      ]_vars

C8_Witness ==
    /\ pc[Main] = "sweep_close"
    /\ \E j \in DOMAIN db : j \notin DOMAIN tasks[Main] /\ db[j].input_file \notin files
    /\ \E j \in DOMAIN db : j \in DOMAIN tasks[Main] /\ clock - db[j].created_at = TTL

\* C9: a second sweep right after a sweep, with the same now, changes neither
\* the store nor the files.
C9_SweepIdempotent ==
    [][(pc[Main] = "sweep_close" /\ pc'[Main] = "idle") =>
           cleanup_old_tasks(db', files', mnow) = << db', files' >>]_vars

C9_Witness ==
    /\ pc[Main] = "sweep_close"
    /\ Cardinality((DOMAIN db) \ (DOMAIN tasks[Main])) >= 2

\* C10: the credentials an adapter selects are the pool's credentials in
\* order, then the last one again and again; rotation never fails.
C10_Rotation ==
    /\ astate = "failed" => pool = << >>
    /\ astate = "ready" =>
          /\ pool /= << >>
          /\ Len(picks) = calls + 1
          /\ \A i \in 1..Len(picks) : picks[i] = pool[Min(i, Len(pool))]
          /\ api_key = picks[Len(picks)]

C10_Witness ==
    /\ pool = << "k1", "k2", "k3" >>
    /\ picks = << "k1", "k2", "k3", "k3" >>
\* C11 as stated: when translate issues a provider call on an adapter that
\* has issued one before, at least self.interval seconds (the default, or the
\* value last given to set_interval) have passed since the earlier call.
C11_PacedByCurrent ==
    [][(sent' = sent + 1 /\ sent >= 1) => since >= interval]_vars

\* C11 amended: when translate issues a provider call on an adapter that has
\* issued one before, at least as many seconds have passed since the earlier
\* call as self.interval was when the earlier call was made, whether that
\* call was answered or raised.
C11_PacedByEarlier ==
    [][(sent' = sent + 1 /\ sent >= 1) => since >= paced]_vars

\* a second provider call has been issued and has raised, and the sleep after
\* it has just ended
C11_Witness ==
    sent >= 2 /\ t_text = "GEMINI_API_ERROR" /\ paced > 0 /\ since = paced

HasText(tpl) == \E i \in DOMAIN tpl : tpl[i] = "{text}"

\* C15: an adapter is constructed only with a template that has the {text}
\* field, and every request text sent to the provider contains the text
\* being translated.
C15_TemplateChecked ==
    /\ astate = "ready" => HasText(prompt)
    /\ sent > 0 => \E i \in DOMAIN full_prompt : full_prompt[i] \in Texts

Canonical(j) == BilingualPath(args[j].input_file)
Temporary(j) == TempPath(args[j].input_file)
Reconciles(j) == pc[j] = "reconcile" /\ pc'[j] = "final"

C19_Reconciliation ==
    [][\A j \in JobIds : Reconciles(j) =>
        /\ Canonical(j) \in files
              => /\ exc'[j] = NoExc /\ out'[j] = Canonical(j)
                 /\ files' = files
        /\ (Canonical(j) \notin files /\ Temporary(j) \in files)
              => /\ exc'[j] = NoExc /\ out'[j] = Canonical(j)
                 /\ files' = (files \ {Temporary(j)}) \cup {Canonical(j)}
                 /\ Temporary(j) \notin files'
        /\ exc'[j] = NoExc => out'[j] \in files']_vars

\* one call has returned the output file with no temporary file beside it,
\* and another has returned the output file with the temporary file left in
\* place
C19_Witness ==
    \E j, k \in JobIds :
        /\ pc[j] = "final" /\ exc[j] = NoExc /\ out[j] = Canonical(j)
        /\ Canonical(j) \in files /\ Temporary(j) \notin files
        /\ pc[k] = "final" /\ exc[k] = NoExc /\ out[k] = Canonical(k)
        /\ Canonical(k) \in files /\ Temporary(k) \in files

StepOf(j) == pc[j] /= "none" /\ pc'[j] /= pc[j]

\* C14: a job's unit is started once, by the submission of that job, which
\* returns at once; and a record's status becomes Running, Completed or
\* Failed in no step of a unit started for another record.
C14_OneUnitPerJob ==
    [][\A j \in JobIds :
        /\ (pc[j] = "none" /\ pc'[j] /= "none")
              => /\ pc[Main] = "submit_close" /\ req.task_id = j
                 /\ pc'[j] = "start" /\ pc'[Main] = "idle"
        /\ pc[j] /= "none" => pc'[j] /= "none"
        /\ (j \in DOMAIN db /\ j \in DOMAIN db'
            /\ db'[j].status /= db[j].status
            /\ db'[j].status \in {"Running", "Completed", "Failed"})
              => \A k \in JobIds \ {j} : ~StepOf(k)]_vars

\* C16: an id whose record a sweep has removed is not in the store.
C16_SweptStaysOut == \A j \in swept : j \notin DOMAIN db

\* C18: a remote job whose unit has ended without a provider error has been
\* moved to Completed with progress 1.0 and the output path
\* <stem>_bilingual<ext> as its result file.
C18_RemoteJobCompletes ==
    \A j \in JobIds :
        (/\ pc[j] = "done"
         /\ args[j].engine_id /= "local_helsinki"
         /\ exc[j] /= "long"
         /\ j \in DOMAIN db /\ ~torn /\ UnitsEnded /\ ~Busy(Main))
        => /\ db[j].status = "Completed"
           /\ db[j].progress = 1
           /\ db[j].result_file = BilingualPath(args[j].input_file)

\* C20: the files a sweep deletes are referred to by no record it keeps: a
\* kept Completed record whose result file was there still has it, and a kept
\* Queued or Running record whose input file was there still has it.
C20_SweepKeepsLiveFiles ==
    [][(pc[Main] = "sweep_del" /\ pc'[Main] /= "sweep_del") =>
        \A j \in DOMAIN tasks'[Main] :
            /\ (tasks'[Main][j].status = "Completed" /\ tasks'[Main][j].result_file \in files)
                  => tasks'[Main][j].result_file \in files'
            /\ (tasks'[Main][j].status \in {"Queued", "Running"}
                /\ tasks'[Main][j].input_file \in files)
                  => tasks'[Main][j].input_file \in files']_vars

\* C17: an exception raised while a unit works takes the unit to its handler;
\* when the record is in the store as the handler reads it, the handler writes
\* it back as Failed with the first ErrLimit characters of the message at
\* most; and the record of a unit that caught an exception is never Completed.
C17_ExceptionRecorded ==
    [][\A j \in JobIds :
        /\ (exc[j] = NoExc /\ exc'[j] /= NoExc) => pc'[j] = "final"
        /\ (pc[j] = "final" /\ pc'[j] /= "final" /\ exc[j] /= NoExc /\ j \in DOMAIN db)
              => /\ pc'[j] = "fin_open"
                 /\ tasks'[j][j].status = "Failed"
                 /\ tasks'[j][j].msg = Min(MsgLen(exc[j]), ErrLimit)
        /\ (pc[j] = "fin_close" /\ pc'[j] = "done" /\ exc[j] /= NoExc)
              => /\ db'[j].status = "Failed"
                 /\ db'[j].msg <= ErrLimit /\ db'[j].msg <= MsgLen(exc[j])
        /\ (exc'[j] /= NoExc /\ j \in DOMAIN db') => db'[j].status /= "Completed"]_vars

\* the list helsinki_translate_paragraphs is to return for the first k paragraphs
Expected(k) ==
    [m \in 1..k |-> IF Blank(paragraphs[m]) THEN "" ELSE ModelOut(paragraphs[m])]

\* the paragraphs among the first k that go to the model, in order
ToModel(k) == SelectSeq(SubSeq(paragraphs, 1, k), LAMBDA para : ~Blank(para))

Less(a, b) == a.num * b.den < b.num * a.den

====
